---- MODULE Spec2Model ----
(***************************************************************************)
(* stimdx dynamic-circuit execution engine (cpp/src/executor.cpp).         *)
(*                                                                         *)
(* The model follows the C++ executor: sample() runs one fresh ExecContext *)
(* per shot, execute() walks the protobuf Circuit recursively (the call    *)
(* stack is the variable "stack"), eval_condition() reads the context.     *)
(* The stim TableauSimulator is an external library: a block is modelled   *)
(* by the measurement results it produces ("rand": a uniformly random      *)
(* outcome drawn from the simulator's seeded generator, "one"/"zero": a    *)
(* deterministic outcome such as "R 0 / X 0 / M 0"), and the seeded        *)
(* generator by a stream of bits per seed that is fixed once drawn.        *)
(***************************************************************************)
EXTENDS Integers, Sequences, FiniteSets, TLC

\* ------------------------------------------------------------------ bounds
MaxShots == 2          \* largest `shots` argument tried
LoopMax  == 2          \* declared max_iter of the bounded loops below
SeedMod  == 4          \* number of distinct generator seeds (stands for 2^64)
BaseSeeds == {-1, 0}   \* the base seeds tried

\* ------------------------------------------------------- program constants
DefaultMaxIter == 10000

\* --------------------------------------------------------------- AST terms
NoCond == [kind |-> "none", index |-> 0, indices |-> <<>>]
LastMeas(i) == [kind |-> "last_meas", index |-> i, indices |-> <<>>]
MeasParity(is) == [kind |-> "meas_parity", index |-> 0, indices |-> is]

StimBlock(ms, cap) ==
  [kind |-> "stim_block", meas |-> ms, capture_as_last |-> cap,
   condition |-> NoCond, body |-> <<>>, max_iter |-> 0]
IfNode(c, b) ==
  [kind |-> "if_node", meas |-> <<>>, capture_as_last |-> FALSE,
   condition |-> c, body |-> b, max_iter |-> 0]
WhileNode(c, b, m) ==
  [kind |-> "while_node", meas |-> <<>>, capture_as_last |-> FALSE,
   condition |-> c, body |-> b, max_iter |-> m]
DoWhileNode(c, b, m) ==
  [kind |-> "do_while_node", meas |-> <<>>, capture_as_last |-> FALSE,
   condition |-> c, body |-> b, max_iter |-> m]
UnsetNode ==
  [kind |-> "none", meas |-> <<>>, capture_as_last |-> FALSE,
   condition |-> NoCond, body |-> <<>>, max_iter |-> 0]

\* ------------------------------------------------------------ the circuits
\* README Quick Start: c = Circuit("H 0\nM 0"); c.while_loop(fix, LastMeas(0)),
\* here with a declared max_iter so that the runaway case is reached
RusCircuit ==
  << StimBlock(<<"rand">>, TRUE),
     WhileNode(LastMeas(0), << StimBlock(<<"rand">>, TRUE) >>, LoopMax) >>

\* a While whose condition is true at every evaluation
AlwaysWhile ==
  << StimBlock(<<"zero">>, FALSE),
     StimBlock(<<"one">>, TRUE),
     WhileNode(LastMeas(0), << StimBlock(<<"rand">>, FALSE) >>, LoopMax),
     StimBlock(<<"one">>, FALSE) >>

\* a While over the whole record with negative indexing: it repeats while
\* the newest outcome differs from the first
ParityWhile ==
  << StimBlock(<<"one", "rand">>, FALSE),
     WhileNode(MeasParity(<<0, -1>>),
               << StimBlock(<<"rand">>, FALSE) >>, LoopMax) >>

\* a DoWhile whose condition is false at its first check
DoOnce ==
  << StimBlock(<<"zero">>, TRUE),
     DoWhileNode(LastMeas(0), << StimBlock(<<"rand", "one">>, FALSE) >>, 0),
     StimBlock(<<"zero">>, FALSE) >>

\* a DoWhile that repeats while the newest outcome is set
DoRandom ==
  << DoWhileNode(MeasParity(<<-1>>),
                 << StimBlock(<<"rand">>, TRUE) >>, LoopMax) >>

\* a DoWhile whose condition is true at every check
DoAlways ==
  << DoWhileNode(MeasParity(<<0>>),
                 << StimBlock(<<"one">>, FALSE) >>, LoopMax) >>

\* conditionals on both kinds of condition, after the README's feed-forward
\* example; the second conditional captures a block without measurements
FeedForward ==
  << StimBlock(<<"rand", "rand">>, TRUE),
     IfNode(LastMeas(1), << StimBlock(<<"one">>, TRUE) >>),
     IfNode(MeasParity(<<0, -1, -1>>), << StimBlock(<<>>, TRUE) >>),
     IfNode(LastMeas(0), << StimBlock(<<"zero">>, FALSE) >>) >>

\* conditions evaluated before any block has run, or has captured
Uncaptured ==
  << StimBlock(<<"rand">>, FALSE),
     IfNode(LastMeas(0), << StimBlock(<<"one">>, TRUE) >>) >>
EarlyLast == << IfNode(LastMeas(0), << StimBlock(<<"one">>, TRUE) >>) >>
EarlyParity ==
  << IfNode(MeasParity(<<>>), << StimBlock(<<"one">>, TRUE) >>),
     StimBlock(<<"rand">>, TRUE),
     IfNode(LastMeas(0),
            << IfNode(MeasParity(<<-2>>),
                      << StimBlock(<<"one">>, TRUE) >>) >>) >>

\* a loop inside a loop: the inner While is entered once per outer iteration
Nested ==
  << DoWhileNode(MeasParity(<<-1>>),
       << StimBlock(<<"one">>, TRUE),
          WhileNode(LastMeas(0), << StimBlock(<<"zero">>, TRUE) >>, 1),
          StimBlock(<<"rand">>, FALSE) >>, LoopMax) >>

\* an error raised inside an If inside a While
NestedError ==
  << StimBlock(<<"rand">>, TRUE),
     WhileNode(LastMeas(0),
       << IfNode(MeasParity(<<-1>>),
                 << StimBlock(<<"rand">>, FALSE),
                    IfNode(LastMeas(1), << StimBlock(<<"one">>, TRUE) >>) >>),
          StimBlock(<<"rand">>, TRUE) >>, LoopMax),
     StimBlock(<<"one">>, FALSE) >>

\* messages whose oneof is not set
UnknownNode == << StimBlock(<<"rand">>, TRUE), UnsetNode >>
UnknownCond == << StimBlock(<<"rand">>, TRUE),
                  IfNode(NoCond, << StimBlock(<<"one">>, TRUE) >>) >>

\* every kind of node in one circuit
Mixed ==
  << DoWhileNode(MeasParity(<<-1>>),
                 << StimBlock(<<"rand">>, FALSE) >>, LoopMax),
     IfNode(MeasParity(<<0>>), << UnsetNode >>) >>

\* a While with an empty body: nothing but the counter changes per iteration
IdleLoop ==
  << StimBlock(<<"one">>, TRUE), WhileNode(LastMeas(0), <<>>, LoopMax) >>

Circuits ==
  << RusCircuit, AlwaysWhile, ParityWhile, DoOnce, DoRandom, DoAlways,
     FeedForward, Uncaptured, EarlyLast, EarlyParity, Nested, NestedError,
     UnknownNode, UnknownCond, Mixed, IdleLoop >>

\* loops declared without a usable max_iter (the field's default 0, and a
\* negative value) whose condition is true at every evaluation
DefaultWhile ==
  << StimBlock(<<"one">>, TRUE), WhileNode(LastMeas(0), <<>>, 0) >>
DefaultDo ==
  << StimBlock(<<"one">>, TRUE), DoWhileNode(LastMeas(0), <<>>, -1) >>

\* the circuits run up to the default limit
DefaultCircuits == << DefaultWhile, DefaultDo, Mixed >>

\* the circuits run twice
RunCircuits == << RusCircuit, Mixed >>

\* what std::random_device can return
EntropySeeds == {0, 1}

\* ------------------------------------------------------------------- state
VARIABLES
  circuit,      \* the Circuit handed to sample()
  runs,         \* number of sample() calls the behaviour makes
  call,         \* number of sample() calls started
  shots,        \* argument `shots` of the running call
  seed,         \* argument `seed` of the running call (std::optional)
  mode,         \* where the running call is
  s,            \* loop variable of sample()
  ctx,          \* the ExecContext of the running shot
  stack,        \* the activations of execute(), innermost last
  all_samples,  \* local of sample()
  error,        \* the exception in flight
  results,      \* outcome of every finished call, in call order
  tape,         \* per generator seed, the random bits drawn so far
  blocks,       \* bookkeeping: the blocks run in this shot, with outcomes
  last          \* the step taken last

vars == << circuit, runs, call, shots, seed, mode, s, ctx, stack, all_samples,
           error, results, tape, blocks, last >>

\* ------------------------------------------------------------ small helpers
NoSeed == [has |-> FALSE, val |-> 0]
SomeSeed(k) == [has |-> TRUE, val |-> k]

NoError == [kind |-> "none", limit |-> 0]

\* static_cast<uint64_t>(seed.value() + s)
ToUint64(x) == x % SeedMod

\* the tableau simulator: its generator (seed and position in the stream)
\* and its measurement_record.storage
NewSim(k) == [seed |-> k, pos |-> 0, record |-> <<>>]

\* the context of the shot before, with a new simulator
ReusedContext(k) ==
  [sim |-> [seed |-> k, pos |-> 0, record |-> <<>>],
   meas_record |-> ctx.meas_record,
   last_block_meas |-> ctx.last_block_meas]

\* ExecContext(seed): sim(std::mt19937_64(...)), empty vectors
NewContext(k) ==
  [sim |-> NewSim(k), meas_record |-> <<>>, last_block_meas |-> <<>>]

\* the context after the shot that owned it is over
NoContext ==
  [sim |-> [seed |-> 0, pos |-> 0, record |-> <<>>],
   meas_record |-> <<>>, last_block_meas |-> <<>>]

\* one activation of execute(circuit, ctx): the circuit it iterates over, the
\* position of its for loop, where it is inside the current node, and the
\* locals of the node's loop.  bodies and entry_log are bookkeeping: the
\* body executions started by this loop entry and the log at entry.
Frame(nodes) ==
  [nodes |-> nodes, pc |-> 1, phase |-> "node", iterations |-> 0,
   max_iter |-> 0, bodies |-> 0, entry_log |-> <<>>]

Top == stack[Len(stack)]
Node == Top.nodes[Top.pc]
AtNode == mode = "exec" /\ Len(stack) > 0 /\ Top.pc <= Len(Top.nodes)
SetTop(f) == [stack EXCEPT ![Len(stack)] = f]
NextNode(f) == [f EXCEPT !.pc = f.pc + 1, !.phase = "node"]

\* bookkeeping: the step taken, the condition of the node it was taken at,
\* whether the branch or body was entered, and the context before it
CurrentCondition == IF AtNode THEN Node.condition ELSE NoCond
Step(op, taken) ==
  [op |-> op, cond |-> CurrentCondition, taken |-> taken, before |-> ctx]

\* ------------------------------------------------------------ eval_condition
Returned(b) == [ok |-> TRUE, val |-> b, err |-> "none"]
Thrown(e) == [ok |-> FALSE, val |-> FALSE, err |-> e]

\* a negative index counted back from the end of the block
EvalLastMeasFromEnd(index, c) ==
  LET size == Len(c.last_block_meas)
      actual == IF index < 0 THEN size + index ELSE index
  IN IF actual < 0 \/ actual >= size
     THEN Thrown("out_of_range")
     ELSE Returned(c.last_block_meas[actual + 1])

\* the bit returned negated
EvalLastMeasInverted(index, c) ==
  IF index < 0 \/ index >= Len(c.last_block_meas)
  THEN Thrown("out_of_range")
  ELSE Returned(~c.last_block_meas[index + 1])

\* cond.has_last_meas()
EvalLastMeas(index, c) ==
  IF index < 0 \/ index >= Len(c.last_block_meas)
  THEN Thrown("out_of_range")
  ELSE Returned(c.last_block_meas[index + 1])

\* the referenced bits accumulated with OR
RECURSIVE ParityLoopOr(_, _, _, _)
ParityLoopOr(indices, k, parity, c) ==
  IF k > Len(indices)
  THEN [ok |-> TRUE, val |-> parity = 1, err |-> "none"]
  ELSE LET total_len == Len(c.meas_record)
           i == indices[k]
           actual_idx == IF i < 0 THEN total_len + i ELSE i
       IN IF actual_idx < 0 \/ actual_idx >= total_len
          THEN [ok |-> FALSE, val |-> FALSE, err |-> "out_of_range"]
          ELSE ParityLoopOr(indices, k + 1,
                            IF c.meas_record[actual_idx + 1]
                            THEN 1 ELSE parity, c)

\* for (int i : indices) from position k on, with the parity so far
RECURSIVE ParityLoop(_, _, _, _)
ParityLoop(indices, k, parity, c) ==
  IF k > Len(indices)
  THEN Returned(parity = 1)
  ELSE LET total_len == Len(c.meas_record)
           i == indices[k]
           actual_idx == IF i < 0 THEN total_len + i ELSE i
       IN IF actual_idx < 0 \/ actual_idx >= total_len
          THEN Thrown("out_of_range")
          ELSE ParityLoop(indices, k + 1,
                          IF c.meas_record[actual_idx + 1]
                          THEN (parity + 1) % 2 ELSE parity, c)

\* cond.has_meas_parity()
EvalMeasParity(indices, c) == ParityLoop(indices, 1, 0, c)

EvalCondition(cond, c) ==
  IF cond.kind = "last_meas" THEN EvalLastMeas(cond.index, c)
  ELSE IF cond.kind = "meas_parity" THEN EvalMeasParity(cond.indices, c)
  ELSE Thrown("unknown_condition")

\* ------------------------------------------------- the simulator capability
\* number of random outcomes among the first j measurements of a block
RECURSIVE RandRank(_, _)
RandRank(ms, j) ==
  IF j = 0 THEN 0
  ELSE RandRank(ms, j - 1) + (IF ms[j] = "rand" THEN 1 ELSE 0)

\* the draws the generator of `sim` can return for the next n random
\* outcomes: what its stream already holds at those positions is fixed
Draws(sim, n) ==
  { d \in [1..n -> BOOLEAN] :
      \A r \in 1..n :
        sim.pos + r <= Len(tape[sim.seed]) => d[r] = tape[sim.seed][sim.pos + r] }

\* the outcomes of a block's measurements under the draws d
Outcomes(ms, d) ==
  [j \in 1..Len(ms) |->
     IF ms[j] = "rand" THEN d[RandRank(ms, j)] ELSE ms[j] = "one"]

\* sim.safe_do_circuit(stim_circuit): the outcomes are appended to the
\* simulator's own record and the generator advances
SafeDoCircuit(sim, ms, d) ==
  [sim EXCEPT !.pos = sim.pos + RandRank(ms, Len(ms)),
              !.record = sim.record \o Outcomes(ms, d)]

\* the stream of seed k after the draws d were taken from position pos on
Drawn(k, pos, d) ==
  IF pos + Len(d) > Len(tape[k])
  THEN [tape EXCEPT ![k] = SubSeq(tape[k], 1, pos) \o d]
  ELSE tape

\* ------------------------------------------------------------------ execute
\* a declared max_iter of 0 taken as a limit of its own
EffectiveMaxNonNegative(node) ==
  IF node.max_iter >= 0 THEN node.max_iter ELSE DefaultMaxIter

\* lines 41 and 55: max_iter() > 0 ? max_iter() : 10000
EffectiveMax(node) ==
  IF node.max_iter > 0 THEN node.max_iter ELSE DefaultMaxIter

\* iterations++
Iterate(f) == [f EXCEPT !.iterations = f.iterations + 1]

\* the limit compared with >= : one body execution too few
ExceededAtLimit(f) == f.iterations >= f.max_iter

\* if (iterations > max_iter)
Exceeded(f) == f.iterations > f.max_iter

\* a block branch that appends the simulator's whole record each time
BlockEffectWholeRecord(c, block, d) ==
  LET sim2 == SafeDoCircuit(c.sim, block.meas, d)
      new_meas == sim2.record
  IN [sim |-> sim2,
      meas_record |-> c.meas_record \o new_meas,
      last_block_meas |-> IF block.capture_as_last THEN new_meas
                          ELSE c.last_block_meas]

\* a block branch that keeps the old record when the block measured nothing
BlockEffectKeepOnEmpty(c, block, d) ==
  LET before_len == Len(c.sim.record)
      sim2 == SafeDoCircuit(c.sim, block.meas, d)
      full_record == sim2.record
      new_meas == SubSeq(full_record, before_len + 1, Len(full_record))
  IN [sim |-> sim2,
      meas_record |-> c.meas_record \o new_meas,
      last_block_meas |-> IF block.capture_as_last /\ Len(new_meas) > 0
                          THEN new_meas
                          ELSE c.last_block_meas]

\* the stim-block branch: the new measurements are the tail of the
\* simulator's record past before_len
BlockEffect(c, block, d) ==
  LET before_len == Len(c.sim.record)
      sim2 == SafeDoCircuit(c.sim, block.meas, d)
      full_record == sim2.record
      new_meas == SubSeq(full_record, before_len + 1, Len(full_record))
  IN [sim |-> sim2,
      meas_record |-> c.meas_record \o new_meas,
      last_block_meas |-> IF block.capture_as_last THEN new_meas
                          ELSE c.last_block_meas]

\* an exception that ends only the innermost execute() call: the caller
\* goes on as after a normal return
RaiseInnermost(kind, limit, f, op) ==
  /\ error' = [kind |-> kind, limit |-> limit]
  /\ IF Len(stack) > 1
     THEN LET caller == stack[Len(stack) - 1]
              rest == SubSeq(stack, 1, Len(stack) - 2)
          IN /\ mode' = mode
             /\ stack' = Append(rest, IF caller.phase = "if"
                                      THEN NextNode(caller) ELSE caller)
     ELSE /\ mode' = "thrown"
          /\ stack' = SetTop(f)
  /\ last' = Step(op, FALSE)
  /\ UNCHANGED << circuit, runs, call, shots, seed, s, ctx, all_samples,
                  results, tape, blocks >>

\* throw: the exception leaves execute() with the context as it is
Raise(kind, limit, f, op) ==
  /\ mode' = "thrown"
  /\ error' = [kind |-> kind, limit |-> limit]
  /\ stack' = SetTop(f)
  /\ last' = Step(op, FALSE)
  /\ UNCHANGED << circuit, runs, call, shots, seed, s, ctx, all_samples,
                  results, tape, blocks >>

\* the step stays inside execute(): only the stack of activations changes
Goto(newstack, op, taken) ==
  /\ stack' = newstack
  /\ last' = Step(op, taken)
  /\ UNCHANGED << circuit, runs, call, shots, seed, mode, s, ctx, all_samples,
                  error, results, tape, blocks >>

\* a call of the body that loses the advanced counter
CallBodyUncounted(f) ==
  Append(SetTop([Top EXCEPT !.phase = f.phase]), Frame(Node.body))

\* execute(node.body(), ctx) called from the activation f
CallBody(f) ==
  Append(SetTop([f EXCEPT !.bodies = f.bodies + 1]), Frame(Node.body))

ExecBlock ==
  /\ AtNode /\ Top.phase = "node" /\ Node.kind = "stim_block"
  /\ \E d \in Draws(ctx.sim, RandRank(Node.meas, Len(Node.meas))) :
       /\ ctx' = BlockEffect(ctx, Node, d)
       /\ tape' = Drawn(ctx.sim.seed, ctx.sim.pos, d)
  /\ stack' = SetTop(NextNode(Top))
  /\ blocks' = Append(blocks, [capture_as_last |-> Node.capture_as_last,
                                outcomes |-> SubSeq(ctx'.sim.record,
                                                    Len(ctx.sim.record) + 1,
                                                    Len(ctx'.sim.record))])
  /\ last' = Step("block", Node.capture_as_last)
  /\ UNCHANGED << circuit, runs, call, shots, seed, mode, s, all_samples,
                  error, results >>

\* the body run whatever the condition returned
ExecIfAlways ==
  /\ AtNode /\ Top.phase = "node" /\ Node.kind = "if_node"
  /\ LET r == EvalCondition(Node.condition, ctx)
     IN IF ~r.ok THEN Raise(r.err, 0, Top, "if")
        ELSE Goto(CallBody([Top EXCEPT !.phase = "if"]), "if", r.val)

ExecIf ==
  /\ AtNode /\ Top.phase = "node" /\ Node.kind = "if_node"
  /\ LET r == EvalCondition(Node.condition, ctx)
     IN IF ~r.ok THEN Raise(r.err, 0, Top, "if")
        ELSE IF r.val
        THEN Goto(CallBody([Top EXCEPT !.phase = "if"]), "if", TRUE)
        ELSE Goto(SetTop(NextNode(Top)), "if", FALSE)

\* a While that goes on counting from the counter of the enclosing loop
EnterWhileShared ==
  /\ AtNode /\ Top.phase = "node" /\ Node.kind = "while_node"
  /\ Goto(SetTop([Top EXCEPT !.phase = "while_cond",
                             !.iterations = IF Len(stack) > 1
                                            THEN stack[Len(stack) - 1].iterations
                                            ELSE 0,
                             !.max_iter = EffectiveMax(Node), !.bodies = 0,
                             !.entry_log = ctx.meas_record]),
          "enter_while", FALSE)

EnterWhile ==
  /\ AtNode /\ Top.phase = "node" /\ Node.kind = "while_node"
  /\ Goto(SetTop([Top EXCEPT !.phase = "while_cond", !.iterations = 0,
                             !.max_iter = EffectiveMax(Node), !.bodies = 0,
                             !.entry_log = ctx.meas_record]),
          "enter_while", FALSE)

\* the loop in the order "body, then increment, then compare": the counter
\* is advanced and compared when the body has returned
WhileCondBodyFirst ==
  /\ AtNode /\ Top.phase = "while_cond"
  /\ LET back == Top.bodies > Top.iterations
         f == IF back THEN Iterate(Top) ELSE Top
         r == EvalCondition(Node.condition, ctx)
     IN IF back /\ Exceeded(f) THEN Raise("loop_limit", f.max_iter, f, "while")
        ELSE IF ~r.ok THEN Raise(r.err, 0, f, "while")
        ELSE IF ~r.val THEN Goto(SetTop(NextNode(f)), "while", FALSE)
        ELSE Goto(CallBody(f), "while", TRUE)

\* a loop that advances and compares the counter before it evaluates the
\* condition
WhileCondCountFirst ==
  /\ AtNode /\ Top.phase = "while_cond"
  /\ LET f == Iterate(Top)
         r == EvalCondition(Node.condition, ctx)
     IN IF Exceeded(f) THEN Raise("loop_limit", f.max_iter, f, "while")
        ELSE IF ~r.ok THEN Raise(r.err, 0, Top, "while")
        ELSE IF ~r.val THEN Goto(SetTop(NextNode(Top)), "while", FALSE)
        ELSE Goto(CallBody(f), "while", TRUE)

WhileCond ==
  /\ AtNode /\ Top.phase = "while_cond"
  /\ LET r == EvalCondition(Node.condition, ctx)
         f == Iterate(Top)
     IN IF ~r.ok THEN Raise(r.err, 0, Top, "while")
        ELSE IF ~r.val THEN Goto(SetTop(NextNode(Top)), "while", FALSE)
        ELSE IF Exceeded(f) THEN Raise("loop_limit", f.max_iter, f, "while")
        ELSE Goto(CallBody(f), "while", TRUE)

EnterDoWhile ==
  /\ AtNode /\ Top.phase = "node" /\ Node.kind = "do_while_node"
  /\ Goto(SetTop([Top EXCEPT !.phase = "do_body", !.iterations = 0,
                             !.max_iter = EffectiveMax(Node), !.bodies = 0,
                             !.entry_log = ctx.meas_record]),
          "enter_do_while", FALSE)

\* the body guarded by the condition from the first iteration on
DoBodyChecked ==
  /\ AtNode /\ Top.phase = "do_body"
  /\ LET f == Iterate(Top)
         r == EvalCondition(Node.condition, ctx)
     IN IF Exceeded(f) THEN Raise("loop_limit", f.max_iter, f, "do_body")
        ELSE IF r.ok /\ ~r.val THEN Goto(SetTop(NextNode(Top)), "do_cond", FALSE)
        ELSE Goto(CallBody([f EXCEPT !.phase = "do_cond"]), "do_body", TRUE)

\* a loop whose unconditional first execution is not counted
DoBodyFirstFree ==
  /\ AtNode /\ Top.phase = "do_body"
  /\ LET f == IF Top.bodies = 0 THEN Top ELSE Iterate(Top)
     IN IF Exceeded(f) THEN Raise("loop_limit", f.max_iter, f, "do_body")
        ELSE Goto(CallBody([f EXCEPT !.phase = "do_cond"]), "do_body", TRUE)

DoBody ==
  /\ AtNode /\ Top.phase = "do_body"
  /\ LET f == Iterate(Top)
     IN IF Exceeded(f) THEN Raise("loop_limit", f.max_iter, f, "do_body")
        ELSE Goto(CallBody([f EXCEPT !.phase = "do_cond"]), "do_body", TRUE)

DoCond ==
  /\ AtNode /\ Top.phase = "do_cond"
  /\ LET r == EvalCondition(Node.condition, ctx)
     IN IF ~r.ok THEN Raise(r.err, 0, Top, "do_cond")
        ELSE IF r.val
        THEN Goto(SetTop([Top EXCEPT !.phase = "do_body"]), "do_cond", TRUE)
        ELSE Goto(SetTop(NextNode(Top)), "do_cond", FALSE)

UnknownNodeType ==
  /\ AtNode /\ Top.phase = "node"
  /\ Node.kind \notin {"stim_block", "if_node", "while_node", "do_while_node"}
  /\ Raise("unknown_node", 0, Top, "unknown")

\* the for loop of a nested execute() is over: back in the caller
Return ==
  /\ mode = "exec" /\ Len(stack) > 1 /\ Top.pc > Len(Top.nodes)
  /\ LET caller == stack[Len(stack) - 1]
         rest == SubSeq(stack, 1, Len(stack) - 2)
     IN Goto(Append(rest, IF caller.phase = "if" THEN NextNode(caller)
                          ELSE caller),
             "return", FALSE)

\* ------------------------------------------------------------------- sample
\* the base seed ignored
ShotSeedsFromEntropy(base, n) == EntropySeeds

\* the base seed used for every shot
ShotSeedsNoOffset(base, n) ==
  IF base.has THEN {base.val % SeedMod} ELSE EntropySeeds

\* the seeds the context of shot n can be built with
ShotSeeds(base, n) ==
  IF base.has THEN {ToUint64(base.val + n)} ELSE EntropySeeds

Outcome(ok, samples) ==
  [shots |-> shots, seed |-> seed, ok |-> ok, samples |-> samples,
   error |-> IF ok THEN NoError ELSE error]

StartSample ==
  /\ mode \in {"idle", "returned", "failed"}
  /\ call < runs
  /\ call' = call + 1
  /\ \E n \in (-1)..MaxShots : shots' = n
  /\ \E k \in {NoSeed} \cup {SomeSeed(b) : b \in BaseSeeds} : seed' = k
  /\ s' = 0
  /\ all_samples' = <<>>
  /\ stack' = <<>>
  /\ ctx' = NoContext
  \* all_samples.reserve(shots): a negative int converts to a size_t above
  \* max_size()
  /\ IF shots' < 0
     THEN mode' = "thrown" /\ error' = [kind |-> "length_error", limit |-> 0]
     ELSE mode' = "loop" /\ error' = NoError
  /\ last' = Step("start", FALSE)
  /\ UNCHANGED << circuit, runs, results, tape, blocks >>

BeginShot ==
  /\ mode = "loop" /\ s < shots
  /\ \E k \in ShotSeeds(seed, s) : ctx' = NewContext(k)
  /\ stack' = << Frame(circuit) >>
  /\ mode' = "exec"
  /\ blocks' = <<>>
  /\ last' = Step("begin_shot", FALSE)
  /\ UNCHANGED << circuit, runs, call, shots, seed, s, all_samples, error,
                  results, tape >>

\* all_samples.push_back(std::move(ctx.meas_record)); ++s
EndShot ==
  /\ mode = "exec" /\ Len(stack) = 1 /\ Top.pc > Len(Top.nodes)
  /\ all_samples' = Append(all_samples, ctx.meas_record)
  /\ ctx' = [ctx EXCEPT !.meas_record = <<>>]
  /\ s' = s + 1
  /\ stack' = <<>>
  /\ mode' = "loop"
  /\ last' = Step("end_shot", FALSE)
  /\ UNCHANGED << circuit, runs, call, shots, seed, error, results, tape,
                  blocks >>

ReturnSamples ==
  /\ mode = "loop" /\ s >= shots
  /\ mode' = "returned"
  /\ results' = Append(results, Outcome(TRUE, all_samples))
  /\ last' = Step("return_samples", FALSE)
  /\ UNCHANGED << circuit, runs, call, shots, seed, s, ctx, stack, all_samples,
                  error, tape, blocks >>

\* a sampler that drops the failed shot and goes on with the next one
PropagateSkipShot ==
  /\ mode = "thrown"
  /\ mode' = "loop"
  /\ s' = s + 1
  /\ stack' = <<>>
  /\ error' = NoError
  /\ last' = Step("propagate", FALSE)
  /\ UNCHANGED << circuit, runs, call, shots, seed, ctx, all_samples, results,
                  tape, blocks >>

\* nothing in sample() catches: the exception leaves the call
Propagate ==
  /\ mode = "thrown"
  /\ mode' = "failed"
  /\ stack' = <<>>
  /\ all_samples' = <<>>
  /\ results' = Append(results, Outcome(FALSE, <<>>))
  /\ last' = Step("propagate", FALSE)
  /\ UNCHANGED << circuit, runs, call, shots, seed, s, ctx, error, tape,
                  blocks >>

\* ------------------------------------------------------------ specification
InitWith(cs, n) ==
  /\ circuit \in { cs[i] : i \in 1..Len(cs) }
  /\ runs = n
  /\ call = 0
  /\ shots = 0
  /\ seed = NoSeed
  /\ mode = "idle"
  /\ s = 0
  /\ ctx = NoContext
  /\ stack = <<>>
  /\ all_samples = <<>>
  /\ error = NoError
  /\ results = <<>>
  /\ tape = [k \in 0..(SeedMod - 1) |-> <<>>]
  /\ blocks = <<>>
  /\ last = [op |-> "init", cond |-> NoCond, taken |-> FALSE,
             before |-> NoContext]

\* one sample() call on any of the circuits
Init == InitWith(Circuits, 1)

\* two sample() calls, one after the other, on the same circuit
InitRuns == InitWith(RunCircuits, 1 + 1)

\* one sample() call on a circuit whose loops run under the default limit
InitDefault == InitWith(DefaultCircuits, 1)

Next ==
  \/ StartSample
  \/ BeginShot
  \/ ExecBlock
  \/ ExecIf
  \/ EnterWhile
  \/ WhileCond
  \/ EnterDoWhile
  \/ DoBody
  \/ DoCond
  \/ UnknownNodeType
  \/ Return
  \/ EndShot
  \/ ReturnSamples
  \/ Propagate

Spec == Init /\ [][Next]_vars
SpecRuns == InitRuns /\ [][Next]_vars
SpecDefault == InitDefault /\ [][Next]_vars

\* execute() and sample() run to completion once called: no step that can
\* be taken is put off for ever
SpecFair == Spec /\ WF_vars(Next)

\* =================================================================== claims
IsPrefix(a, b) == Len(a) <= Len(b) /\ SubSeq(b, 1, Len(a)) = a

\* the loop-limit exception was thrown by the While node of the top activation
LoopLimitAtWhile ==
  /\ mode = "thrown" /\ error.kind = "loop_limit"
  /\ Top.phase = "while_cond"

\* the body of a loop node is one stim block
SingleBlockBody(node) ==
  Len(node.body) = 1 /\ node.body[1].kind = "stim_block"

\* the outcome of the finished call
Finished == mode \in {"returned", "failed"}

\* C1: a While whose condition stays true fails with the loop-limit error
\* after exactly m body executions (m the effective limit), and the log at
\* that moment is the log at loop entry followed by the outcomes of those m
\* complete iterations and nothing else.
C1_WhileLimit ==
  /\ LoopLimitAtWhile =>
       /\ error.limit = EffectiveMax(Node)
       /\ Top.bodies = EffectiveMax(Node)
       /\ IsPrefix(Top.entry_log, ctx.meas_record)
       /\ ctx.meas_record = ctx.sim.record
       /\ SingleBlockBody(Node) =>
            Len(ctx.meas_record) =
              Len(Top.entry_log) + EffectiveMax(Node) * Len(Node.body[1].meas)
  /\ \A i \in 1..Len(stack) :
       stack[i].phase = "while_cond" => stack[i].bodies <= stack[i].max_iter
  /\ (circuit = AlwaysWhile /\ Finished /\ shots > 0) =>
       /\ mode = "failed"
       /\ error = [kind |-> "loop_limit", limit |-> LoopMax]
       /\ Len(ctx.meas_record) = 2 + LoopMax

C1_Witness ==
  /\ circuit = AlwaysWhile /\ LoopLimitAtWhile
  /\ Top.bodies = LoopMax
  /\ Len(ctx.meas_record) = 2 + LoopMax

\* C2 as stated: the loop-limit error is raised with the counter equal to
\* the number of body executions performed so far.
C2_CounterEqualsBodies ==
  LoopLimitAtWhile => Top.iterations = Top.bodies

\* C2 amended: in an iteration whose condition evaluated true the counter is
\* incremented and compared first and the body executed after that, so while
\* a body runs the counter equals the body executions started and is within
\* the limit, and the loop-limit error is raised directly after a condition
\* evaluation with the counter one above the body executions performed.
C2_IncrementBeforeBody ==
  /\ \A i \in 1..Len(stack) :
       stack[i].phase = "while_cond" =>
         IF i < Len(stack) \/ mode = "exec"
         THEN /\ stack[i].iterations = stack[i].bodies
              /\ stack[i].iterations <= stack[i].max_iter
         ELSE TRUE
  /\ LoopLimitAtWhile =>
       /\ Top.iterations = Top.bodies + 1
       /\ Top.iterations = Top.max_iter + 1
       /\ last.op = "while"
       /\ EvalCondition(Node.condition, ctx) = Returned(TRUE)

C2_Witness ==
  /\ LoopLimitAtWhile
  /\ Top.iterations = Top.bodies + 1 /\ Top.bodies >= 2

\* the condition of a DoWhile returned false at its first check
FirstCheckFalse ==
  /\ mode = "exec" /\ last.op = "do_cond" /\ ~last.taken
  /\ Top.iterations = 1

\* C3: a DoWhile executes its body at least once whatever its condition and
\* declared max_iter; when the condition is false at its first check the
\* body has run exactly once, the log grew by that one body's outcomes and
\* no error was raised.
C3_DoWhileOnce ==
  /\ \A i \in 1..Len(stack) :
       /\ stack[i].phase = "do_cond" => stack[i].bodies >= 1
       /\ (stack[i].phase = "do_body" /\ mode = "thrown") =>
            stack[i].bodies >= 1
  /\ (mode = "exec" /\ last.op = "do_cond") => Top.bodies >= 1
  /\ FirstCheckFalse =>
       LET node == Top.nodes[Top.pc - 1]
       IN /\ Top.bodies = 1
          /\ error = NoError
          /\ IsPrefix(Top.entry_log, ctx.meas_record)
          /\ SingleBlockBody(node) =>
               Len(ctx.meas_record) =
                 Len(Top.entry_log) + Len(node.body[1].meas)
  /\ (circuit = DoOnce /\ Finished /\ shots >= 0) =>
       /\ mode = "returned"
       /\ \A n \in 1..Len(all_samples) : Len(all_samples[n]) = 4

C3_Witness ==
  /\ circuit = DoOnce /\ FirstCheckFalse
  /\ Top.nodes[Top.pc - 1].max_iter <= 0
  /\ Len(ctx.meas_record) = 3

\* the next step is over an If node whose condition returns false
IfConditionFalse ==
  /\ AtNode /\ Top.phase = "node" /\ Node.kind = "if_node"
  /\ EvalCondition(Node.condition, ctx) = Returned(FALSE)

\* C4: when the condition of an If node evaluates false, the step over the
\* node leaves the measurement log, the last-block record and the simulator
\* (and its generator) unchanged and starts no execution of the body.
C4_IfFalseFrame ==
  [][IfConditionFalse =>
       /\ ctx' = ctx
       /\ tape' = tape
       /\ blocks' = blocks
       /\ mode' = mode
       /\ stack' = SetTop(NextNode(Top))]_vars

C4_Witness ==
  /\ mode = "exec" /\ last.op = "if" /\ ~last.taken
  /\ ctx = last.before
  /\ Len(ctx.meas_record) > 0 /\ Len(ctx.last_block_meas) > 0

\* True bits and then one False bit
IsRusSample(x) ==
  /\ Len(x) >= 1
  /\ ~x[Len(x)]
  /\ \A j \in 1..(Len(x) - 1) : x[j]

\* C5: every sample of the repeat-until-success circuit is k >= 0 True bits
\* followed by exactly one False bit, whatever the simulator returned.
C5_RusSamples ==
  circuit = RusCircuit =>
    /\ \A n \in 1..Len(all_samples) : IsRusSample(all_samples[n])
    /\ \A c \in 1..Len(results) :
         \A n \in 1..Len(results[c].samples) :
           IsRusSample(results[c].samples[n])
    /\ (mode = "exec" /\ Len(stack) = 1 /\ Top.pc > Len(Top.nodes)) =>
         IsRusSample(ctx.meas_record)

C5_Witness ==
  /\ circuit = RusCircuit /\ mode = "returned"
  /\ Len(all_samples) = 2
  /\ Len(all_samples[1]) >= 2
  /\ Len(all_samples[2]) = 1

\* two finished calls with the same shots and the same supplied seed
SameArguments(a, b) ==
  /\ a.shots = b.shots
  /\ a.seed = b.seed
  /\ a.seed.has

\* C6: two sample() calls on the same circuit with the same shots and the
\* same supplied base seed end alike: both return the same samples or both
\* fail with the same error.
C6_Determinism ==
  (Len(results) = 2 /\ SameArguments(results[1], results[2])) =>
    /\ results[1].ok = results[2].ok
    /\ results[1].samples = results[2].samples
    /\ results[1].error = results[2].error

C6_Witness ==
  /\ circuit = RusCircuit
  /\ Len(results) = 2 /\ SameArguments(results[1], results[2])
  /\ results[1].ok /\ results[1].shots = 2
  /\ Len(results[1].samples[1]) # Len(results[1].samples[2])

\* two calls that returned, the second with one shot
ShotOfOther(a, b) ==
  /\ a.ok /\ b.ok /\ a.seed.has /\ b.seed.has
  /\ b.shots = 1

\* two calls that returned, with the same seed and no more shots in the first
PrefixRuns(a, b) ==
  /\ a.ok /\ b.ok /\ a.seed.has /\ a.seed = b.seed
  /\ a.shots <= b.shots

\* C7: shot s of a seeded call runs on a simulator seeded with k + s; the
\* sample at index i of sample(circuit, N, k) is the one sample of
\* sample(circuit, 1, k + i), and the samples of sample(circuit, N, k) are
\* the first N samples of sample(circuit, M, k) for N <= M (calls that
\* return).
C7_SeedDerivation ==
  /\ (mode \in {"exec", "thrown"} /\ Len(stack) > 0 /\ seed.has) =>
       ctx.sim.seed = (seed.val + s) % SeedMod
  /\ Len(results) = 2 =>
       \A x, y \in 1..2 :
         LET a == results[x]
             b == results[y]
         IN /\ ShotOfOther(a, b) =>
                 \A i \in 0..(a.shots - 1) :
                   b.seed.val = a.seed.val + i =>
                     b.samples[1] = a.samples[i + 1]
            /\ PrefixRuns(a, b) =>
                 a.samples = SubSeq(b.samples, 1, a.shots)

C7_Witness ==
  /\ circuit = RusCircuit /\ Len(results) = 2
  /\ ShotOfOther(results[1], results[2])
  /\ results[1].shots = 2
  /\ results[2].seed.val = results[1].seed.val + 1
  /\ Len(results[1].samples[1]) = 1
  /\ Len(results[2].samples[1]) = 3

\* the step taken last evaluated a condition and no block has run in the shot
ConditionBeforeAnyBlock ==
  /\ mode \in {"exec", "thrown"} /\ Len(stack) > 0
  /\ last.op \in {"if", "while", "do_cond"}
  /\ blocks = <<>>
  /\ last.cond.kind \in {"last_meas", "meas_parity"}

\* C8 as stated: a LastMeas or MeasParity condition evaluated in a shot
\* before any block has run in that shot fails with the index error.
C8_EarlyConditionFails ==
  ConditionBeforeAnyBlock =>
    mode = "thrown" /\ error.kind = "out_of_range"

\* the outcomes of the blocks bs, in order
RECURSIVE Flatten(_)
Flatten(bs) ==
  IF Len(bs) = 0 THEN <<>>
  ELSE Flatten(SubSeq(bs, 1, Len(bs) - 1)) \o bs[Len(bs)].outcomes

\* the context of a shot was just constructed
ShotStarted == mode = "exec" /\ last.op = "begin_shot"

\* C8 amended: every shot starts on a fresh context (empty log, empty
\* last-block record, new simulator), also after a shot that captured
\* outcomes, so that on it every LastMeas condition and every MeasParity
\* condition with at least one index fails with the index error, while a
\* MeasParity condition without indices returns false; within a shot the
\* log holds the outcomes of that shot's blocks only.
C8_FreshContext ==
  /\ ShotStarted =>
       /\ ctx.meas_record = <<>>
       /\ ctx.last_block_meas = <<>>
       /\ ctx.sim.record = <<>>
       /\ ctx.sim.pos = 0
       /\ ctx.sim.seed \in ShotSeeds(seed, s)
       /\ \A i \in (-2)..2 :
            /\ EvalCondition(LastMeas(i), ctx) = Thrown("out_of_range")
            /\ EvalCondition(MeasParity(<<i>>), ctx) = Thrown("out_of_range")
            /\ EvalCondition(MeasParity(<<0, i>>), ctx) = Thrown("out_of_range")
       /\ EvalCondition(MeasParity(<<>>), ctx) = Returned(FALSE)
  /\ (mode \in {"exec", "thrown"} /\ Len(stack) > 0) =>
       /\ ctx.meas_record = Flatten(blocks)
       /\ ctx.sim.record = Flatten(blocks)
  /\ ConditionBeforeAnyBlock =>
       \/ mode = "thrown" /\ error.kind = "out_of_range"
       \/ /\ mode = "exec" /\ ~last.taken
          /\ last.cond = MeasParity(<<>>)

C8_Witness ==
  /\ ShotStarted /\ s = 1
  /\ Len(all_samples[1]) >= 2
  /\ Len(last.before.last_block_meas) = 1

\* the indices and index lists the conditions are evaluated on
TestIndex == (-3)..2

\* no block with capture_as_last has run in the shot
NoCaptureYet ==
  /\ mode \in {"exec", "thrown"} /\ Len(stack) > 0
  /\ \A b \in 1..Len(blocks) : ~blocks[b].capture_as_last

\* C9: LastMeas(index) fails with the index error exactly when index < 0 or
\* index >= the size of the last-block record and returns the bit at that
\* position otherwise; as long as no capturing block has run in the shot it
\* fails for every index.
C9_LastMeas ==
  /\ \A i \in TestIndex :
       LET r == EvalCondition(LastMeas(i), ctx)
           bad == i < 0 \/ i >= Len(ctx.last_block_meas)
       IN /\ r.ok = ~bad
          /\ bad => r = Thrown("out_of_range")
          /\ ~bad => r = Returned(ctx.last_block_meas[i + 1])
  /\ NoCaptureYet =>
       \A i \in TestIndex : ~EvalCondition(LastMeas(i), ctx).ok
  /\ (mode = "thrown" /\ error.kind = "out_of_range"
        /\ Node.condition.kind = "last_meas") =>
       \/ Node.condition.index < 0
       \/ Node.condition.index >= Len(ctx.last_block_meas)

C9_Witness ==
  /\ circuit = Uncaptured /\ NoCaptureYet
  /\ mode = "thrown" /\ error.kind = "out_of_range"
  /\ Len(ctx.meas_record) = 1

TestLists ==
  {<<>>} \cup { <<a>> : a \in TestIndex }
         \cup { <<a, b>> : a, b \in TestIndex }
         \cup { <<a, a, b>> : a, b \in TestIndex }

\* the position a (possibly negative) index refers to in a log of length n
Resolve(i, n) == IF i >= 0 THEN i ELSE n + i

AllInRange(is, n) ==
  \A k \in 1..Len(is) : Resolve(is[k], n) >= 0 /\ Resolve(is[k], n) < n

OddNumberSet(is, log) ==
  Cardinality({ k \in 1..Len(is) : log[Resolve(is[k], Len(log)) + 1] }) % 2 = 1

\* C10: MeasParity(indices) on a log of length n resolves i to i (i >= 0)
\* or n + i (i < 0), fails with the index error if a resolved index is
\* outside [0, n), and otherwise is true iff an odd number of the referenced
\* bits, counted with multiplicity, are set.
C10_MeasParity ==
  LET log == ctx.meas_record
      n == Len(log)
  IN /\ \A is \in TestLists :
          LET r == EvalCondition(MeasParity(is), ctx)
          IN /\ r.ok = AllInRange(is, n)
             /\ ~r.ok => r = Thrown("out_of_range")
             /\ r.ok => r = Returned(OddNumberSet(is, log))
     /\ n > 0 =>
          /\ EvalCondition(MeasParity(<<-1>>), ctx) = Returned(log[n])
          /\ EvalCondition(MeasParity(<<n - 1>>), ctx) = Returned(log[n])
     /\ EvalCondition(MeasParity(<<>>), ctx) = Returned(FALSE)
     /\ n = 0 =>
          \A is \in TestLists : is # <<>> =>
            EvalCondition(MeasParity(is), ctx) = Thrown("out_of_range")

C10_Witness ==
  /\ circuit = ParityWhile /\ mode = "exec"
  /\ last.op = "while" /\ last.taken
  /\ Len(ctx.meas_record) = 3
  /\ ctx.meas_record[1] /\ ~ctx.meas_record[3]

\* the exception in flight, or that ended the call, came out of a shot
ShotFailed ==
  /\ mode \in {"thrown", "failed"}
  /\ error.kind \in {"out_of_range", "loop_limit", "unknown_node",
                     "unknown_condition"}

\* C11: when no shot fails, sample() returns exactly `shots` samples for
\* shots >= 0 and none for shots <= 0, the sample at position s being the
\* final log of shot s, in shot order.
C11_SamplesPerShot ==
  /\ last.op = "end_shot" =>
       /\ Len(all_samples) = s
       /\ all_samples[s] = last.before.meas_record
  /\ (mode \in {"thrown", "failed", "returned"} /\ ~ShotFailed) =>
       /\ mode = "returned"
       /\ results[call].ok
       /\ results[call].samples = all_samples
       /\ Len(all_samples) = (IF shots > 0 THEN shots ELSE 0)

\* the same for shots >= 0
C11_NonNegativeShots == shots >= 0 => C11_SamplesPerShot

\* C12: a failure in shot s is not caught or retried by sample(): the next
\* step takes it out of the call, the call returns no sample (those of shots
\* 0..s-1 are dropped with the vector), and s never advances, so no later
\* shot is started and the failed shot's context is not touched again.
C12_FailurePropagates ==
  [][ (ShotFailed /\ call' = call) =>
        /\ mode' = "failed"
        /\ error' = error
        /\ s' = s /\ s' < shots
        /\ ctx' = ctx /\ blocks' = blocks
        /\ all_samples' = <<>>
        /\ Len(results') = call
        /\ ~results'[call].ok
        /\ results'[call].samples = <<>>
        /\ results'[call].error = error ]_vars

\* shot 0 completed and shot 1 of 2 failed
C12_Witness ==
  /\ mode = "failed" /\ ShotFailed
  /\ s = 1 /\ shots = 1 + 1
  /\ last.op = "propagate"
  /\ Len(last.before.meas_record) > 0
  /\ results[call].samples = <<>>

\* a shot is running or has just failed: ctx is that shot's context
InShot == mode = "exec" \/ ShotFailed

\* C13: inside a shot the measurement log equals the simulator's full
\* record, which is the concatenation, in execution order, of the outcomes
\* of every block run so far, each once; a block step appends exactly its own
\* outcomes, and every step of the shot leaves the earlier log a prefix of
\* the later one.
C13_LogExactlyOnce ==
  InShot =>
    /\ ctx.meas_record = ctx.sim.record
    /\ ctx.meas_record = Flatten(blocks)
    /\ last.op # "begin_shot" =>
         IsPrefix(last.before.meas_record, ctx.meas_record)
    /\ last.op = "block" =>
         /\ Len(blocks) > 0
         /\ ctx.meas_record =
              last.before.meas_record \o blocks[Len(blocks)].outcomes
    /\ last.op \notin {"block", "begin_shot"} =>
         ctx.meas_record = last.before.meas_record

\* a third block has just run on a log that already held two outcomes
C13_Witness ==
  /\ mode = "exec" /\ last.op = "block"
  /\ Len(blocks) >= 3
  /\ Len(last.before.meas_record) >= 2
  /\ Len(blocks[Len(blocks)].outcomes) >= 1
  /\ Len(ctx.meas_record) > Len(last.before.meas_record)

\* the position in bs of the most recent capturing block, 0 when none
LastCapturing(bs) ==
  LET is == { i \in 1..Len(bs) : bs[i].capture_as_last }
  IN IF is = {} THEN 0 ELSE CHOOSE i \in is : \A j \in is : j <= i

\* the slice of the log appended by block n of bs
SliceOf(log, bs, n) ==
  SubSeq(log, Len(Flatten(SubSeq(bs, 1, n - 1))) + 1,
              Len(Flatten(SubSeq(bs, 1, n))))

\* C14: a block with capture_as_last set replaces the last-block record with
\* exactly its own new outcomes, also when it produced none (a later
\* LastMeas(0) then fails); a block without it, and every other step, leaves
\* the record unchanged; so the record is empty or the slice of the log
\* appended by the most recent capturing block.
C14_CaptureAsLast ==
  InShot =>
    LET n == LastCapturing(blocks)
    IN /\ n = 0 => ctx.last_block_meas = <<>>
       /\ n > 0 => /\ ctx.last_block_meas = blocks[n].outcomes
                   /\ ctx.last_block_meas = SliceOf(ctx.meas_record, blocks, n)
       /\ (last.op = "block" /\ last.taken) =>
            /\ n = Len(blocks)
            /\ Len(blocks[n].outcomes) = 0 =>
                 /\ ctx.last_block_meas = <<>>
                 /\ EvalCondition(LastMeas(0), ctx) = Thrown("out_of_range")
       /\ (last.op = "block" /\ ~last.taken) =>
            ctx.last_block_meas = last.before.last_block_meas
       /\ last.op \notin {"block", "begin_shot"} =>
            ctx.last_block_meas = last.before.last_block_meas

\* a capturing block without measurements emptied a non-empty record and
\* the LastMeas(0) condition after it failed
C14_Witness ==
  /\ mode = "thrown" /\ error.kind = "out_of_range"
  /\ last.op = "if" /\ last.cond = LastMeas(0)
  /\ Len(blocks) >= 2
  /\ blocks[Len(blocks)].capture_as_last
  /\ blocks[Len(blocks)].outcomes = <<>>
  /\ Len(blocks[1].outcomes) > 0 /\ blocks[1].capture_as_last
  /\ ctx.last_block_meas = <<>>
  /\ Len(ctx.meas_record) > 0

\* the condition of a While returned false and the loop was left
WhileLeft == mode = "exec" /\ last.op = "while" /\ ~last.taken

\* in log, the n outcomes from position from on are all true
AllTrue(log, from, n) == \A k \in from..(from + n - 1) : log[k]

\* C15: a While whose condition is false at its first evaluation runs its
\* body zero times and leaves the log and the last-block record as they
\* were; one whose condition is true for j evaluations and then false, with
\* j up to and including the effective limit, runs the body exactly j times
\* and completes without the loop-limit error.  In RusCircuit the condition
\* values are the outcomes in the log from the entry outcome on.
C15_WhileCompletes ==
  /\ WhileLeft =>
       /\ error = NoError
       /\ Top.bodies = Top.iterations
       /\ Top.bodies <= Top.max_iter
       /\ ctx = last.before
       /\ Top.bodies = 0 =>
            /\ ctx.meas_record = Top.entry_log
            /\ last.before.meas_record = Top.entry_log
            /\ last.before.last_block_meas = ctx.last_block_meas
  /\ (circuit = RusCircuit /\ WhileLeft) =>
       LET e == Len(Top.entry_log)
           j == Len(ctx.meas_record) - e
       IN /\ e = 1
          /\ j = Top.bodies
          /\ AllTrue(ctx.meas_record, e, j)
          /\ ~ctx.meas_record[e + j]
  /\ (circuit = RusCircuit /\ LoopLimitAtWhile) =>
       LET e == Len(Top.entry_log)
       IN /\ Len(ctx.meas_record) - e = Top.max_iter
          /\ AllTrue(ctx.meas_record, e, Top.max_iter + 1)

\* the condition was true as many times as the limit allows, then false
C15_Witness ==
  /\ circuit = RusCircuit /\ WhileLeft
  /\ Top.bodies = LoopMax /\ Top.max_iter = LoopMax
  /\ Len(ctx.meas_record) = 1 + LoopMax
  /\ ~ctx.meas_record[1 + LoopMax]

\* the loop-limit exception was thrown by the DoWhile node of the top
\* activation
LoopLimitAtDo ==
  /\ mode = "thrown" /\ error.kind = "loop_limit"
  /\ Top.phase = "do_body"

\* the condition of a DoWhile returned false and the loop was left
DoLeft == mode = "exec" /\ last.op = "do_cond" /\ ~last.taken

\* C16: a DoWhile whose condition is true at every check fails with the
\* loop-limit error after exactly m body executions, m >= 1 its effective
\* limit (the first execution counts as iteration 1 and the limit is checked
\* before every execution); one whose condition is true for j-1 checks and
\* then false, j <= m, runs the body exactly j times without error.  In
\* DoRandom the condition values are the outcomes in the log.
C16_DoWhileLimit ==
  /\ LoopLimitAtDo =>
       /\ EffectiveMax(Node) >= 1
       /\ error.limit = EffectiveMax(Node)
       /\ Top.bodies = EffectiveMax(Node)
       /\ Top.iterations = Top.bodies + 1
       /\ last.op = "do_body" /\ ctx = last.before
  /\ DoLeft =>
       /\ error = NoError
       /\ Top.bodies = Top.iterations
       /\ 1 <= Top.bodies /\ Top.bodies <= Top.max_iter
  /\ (circuit = DoRandom /\ LoopLimitAtDo) =>
       /\ Len(ctx.meas_record) = LoopMax
       /\ AllTrue(ctx.meas_record, 1, LoopMax)
  /\ (circuit = DoRandom /\ DoLeft) =>
       LET j == Len(ctx.meas_record)
       IN /\ j = Top.bodies
          /\ AllTrue(ctx.meas_record, 1, j - 1)
          /\ ~ctx.meas_record[j]
  /\ (circuit = DoAlways /\ Finished /\ shots > 0) =>
       /\ mode = "failed"
       /\ error = [kind |-> "loop_limit", limit |-> LoopMax]
       /\ Len(ctx.meas_record) = LoopMax

\* every check was true and the limit stopped the loop
C16_Witness ==
  /\ circuit = DoRandom /\ LoopLimitAtDo
  /\ Top.bodies = LoopMax /\ error.limit = LoopMax
  /\ Len(ctx.meas_record) = LoopMax
  /\ AllTrue(ctx.meas_record, 1, LoopMax)

\* an error of the interpreter has been raised in the current call
ErrorRaised ==
  error.kind \in {"out_of_range", "loop_limit", "unknown_node",
                  "unknown_condition"}

\* the activations below the top one
Callers(st) == SubSeq(st, 1, Len(st) - 1)

\* C17: an error raised anywhere inside a nested body ends the whole shot:
\* the raising step leaves every enclosing activation, the log and the
\* last-block record as they are, and once it is raised the only step of the
\* call is the one that takes it out of sample(): no loop iterates or
\* evaluates a condition again, no sibling node runs, the context is not
\* modified.
C17_ErrorEndsShot ==
  [][ /\ (~ErrorRaised /\ ErrorRaised') =>
           /\ mode = "exec" /\ mode' = "thrown"
           /\ Len(stack') = Len(stack)
           /\ Callers(stack') = Callers(stack)
           /\ ctx' = ctx /\ blocks' = blocks
      /\ (ErrorRaised /\ call' = call) =>
           /\ mode = "thrown" /\ mode' = "failed"
           /\ last'.op = "propagate"
           /\ stack' = <<>>
           /\ error' = error
           /\ ctx' = ctx /\ blocks' = blocks ]_vars

\* the index error of an If inside an If inside a While, raised with a
\* sibling block and a further loop iteration still ahead
C17_Witness ==
  /\ circuit = NestedError
  /\ mode = "thrown" /\ error.kind = "out_of_range"
  /\ Len(stack) = 3
  /\ stack[1].phase = "while_cond" /\ stack[1].iterations < stack[1].max_iter
  /\ stack[1].pc < Len(stack[1].nodes)
  /\ stack[1 + 1].phase = "if" /\ stack[1 + 1].pc < Len(stack[1 + 1].nodes)
  /\ Len(ctx.meas_record) > 0

\* no execution of a loop node has run its body more often than its limit
BodiesWithinLimit ==
  \A i \in 1..Len(stack) :
    stack[i].phase \in {"while_cond", "do_body", "do_cond"} =>
      stack[i].bodies <= stack[i].max_iter

\* C18: every shot terminates: a shot that is executing eventually either
\* returns normally or fails with an error, whatever the simulator returns,
\* every execution of a While or DoWhile running its body at most as often
\* as its effective limit.
C18_ShotTerminates ==
  /\ []BodiesWithinLimit
  /\ (mode = "exec") ~> (mode # "exec")

\* a shot that ran its outer loop up to the limit and the inner loop in each
\* pass has returned
C18_Witness ==
  /\ circuit = Nested
  /\ mode = "loop" /\ last.op = "end_shot"
  /\ Len(blocks) = 3 * LoopMax
  /\ all_samples[s] = Flatten(blocks)

\* execution has just entered a While or DoWhile node
LoopEntered ==
  mode = "exec" /\ last.op \in {"enter_while", "enter_do_while"}

\* how often the body of Nested's inner While has run in this shot: its
\* block is the only capturing one that measures a zero
InnerBodies ==
  Cardinality({ i \in 1..Len(blocks) :
                  blocks[i].capture_as_last /\ blocks[i].outcomes = << FALSE >> })

\* C19: the iteration counter belongs to one execution of a loop node: it
\* is 0 each time execution enters a While or DoWhile, so in Nested, whose
\* inner While (limit 1) is entered once per pass of the outer loop, the
\* inner loop never raises the loop-limit error although its body runs up to
\* LoopMax times in a shot.
C19_CounterPerEntry ==
  /\ LoopEntered => Top.iterations = 0 /\ Top.bodies = 0
  /\ (circuit = Nested /\ InShot) =>
       /\ InnerBodies <= LoopMax
       /\ Len(stack) > 1 => error = NoError
       /\ \A i \in 1..Len(stack) :
            stack[i].phase = "while_cond" =>
              /\ stack[i].max_iter = 1
              /\ stack[i].iterations <= 1
  /\ (circuit = Nested /\ last.op = "end_shot") =>
       InnerBodies = Len(blocks) \div 3

\* the inner body ran more often in one shot than the inner limit, and the
\* shot completed
C19_Witness ==
  /\ circuit = Nested
  /\ mode = "loop" /\ last.op = "end_shot"
  /\ error = NoError
  /\ InnerBodies = LoopMax /\ InnerBodies > 1
  /\ Len(all_samples[s]) = 3 * LoopMax

\* the loop-limit exception was thrown by the loop node of the top activation
LoopLimitAtLoop == LoopLimitAtWhile \/ LoopLimitAtDo

\* C20: the effective limit of a While or DoWhile is its declared max_iter
\* when that is positive and 10000 when it is zero or negative: a loop
\* declared with max_iter <= 0 and an always-true condition fails after
\* exactly 10000 body executions with 10000 named as the limit.
C20_DefaultLimit ==
  /\ \A i \in 1..Len(stack) :
       LET f == stack[i]
       IN (mode = "exec" /\ f.phase \in {"while_cond", "do_body", "do_cond"}) =>
            /\ f.max_iter = (IF f.nodes[f.pc].max_iter > 0
                             THEN f.nodes[f.pc].max_iter ELSE 10000)
            /\ f.bodies <= f.max_iter
  /\ (LoopLimitAtLoop /\ Node.max_iter > 0) =>
       /\ error.limit = Node.max_iter
       /\ Top.bodies = Node.max_iter
  /\ (LoopLimitAtLoop /\ Node.max_iter <= 0) =>
       /\ error.limit = 10000
       /\ Top.bodies = 10000
       /\ Top.iterations = 10000 + 1
  /\ (circuit \in {DefaultWhile, DefaultDo} /\ Finished /\ shots > 0) =>
       /\ mode = "failed"
       /\ error = [kind |-> "loop_limit", limit |-> 10000]

\* the While declared with max_iter 0 has run its body 10000 times and fails
C20_Witness ==
  /\ circuit = DefaultWhile /\ LoopLimitAtWhile
  /\ Node.max_iter = 0
  /\ error.limit = 10000
  /\ Top.bodies = 10000

====
